---------------------------- MODULE Spec2Model ----------------------------
(***************************************************************************)
(* Reolink recording-filename codec: parseFileName / decodeHexToFlags and  *)
(* the FLAGS_MAPPING / FLAGS_LENGTH registry.                              *)
(*                                                                         *)
(* Strings are sequences of one-character strings.  A JavaScript Number    *)
(* that holds an integer is a record [nan, neg, bits]: bits is the         *)
(* magnitude, most significant bit first, without leading zeros (zero is   *)
(* the empty sequence), already rounded to the 53 significant bits of a    *)
(* double.  An int32 is the set of its one-bit positions, position 0 the  *)
(* least significant bit.                                                  *)
(***************************************************************************)
EXTENDS Integers, Sequences, FiniteSets, TLC

(***************************** bounds **************************************)
\* longest payload token, in hex characters
MaxHexLen == 14
\* largest number of underscore tokens in a generated file name
MaxTokens == 10

\* the calls of a series of calls
MaxCalls == 3

\* the clip paths a camera reports
MaxPaths == 2

\* the ticks of the clip timer whose passes are under way at once
MaxDrains == 2

(***************************** strings *************************************)
Str_Rec == <<"R", "e", "c">>
Str_NaN == <<"N", "a", "N">>
\* the value of a local that has not been assigned
Undefined == <<"undefined">>

\* s.split('').reverse().join('')
Reverse(s) == <<>> \o [i \in 1..Len(s) |-> s[Len(s) + 1 - i]]

\* s.padStart(n, c)
PadStart(s, n, c) ==
    IF Len(s) >= n THEN s
    ELSE [i \in 1..(n - Len(s)) |-> c] \o s

\* s.startsWith(p)
StartsWith(s, p) == Len(s) >= Len(p) /\ SubSeq(s, 1, Len(p)) = p

RECURSIVE Split(_, _)
\* s.split(c): the pieces of s between occurrences of the character c
Split(s, c) ==
    IF \A i \in 1..Len(s) : s[i] # c THEN <<s>>
    ELSE LET i == CHOOSE j \in 1..Len(s) :
                     s[j] = c /\ \A k \in 1..(j - 1) : s[k] # c
         IN <<SubSeq(s, 1, i - 1)>> \o Split(SubSeq(s, i + 1, Len(s)), c)

RECURSIVE Join(_, _)
\* parts.join(c)
Join(parts, c) ==
    IF parts = <<>> THEN <<>>
    ELSE IF Len(parts) = 1 THEN parts[1]
    ELSE parts[1] \o <<c>> \o Join(Tail(parts), c)

(***************************** numbers *************************************)
HexDigits == <<"0", "1", "2", "3", "4", "5", "6", "7",
               "8", "9", "A", "B", "C", "D", "E", "F">>
LowerHex == <<"a", "b", "c", "d", "e", "f">>

\* the value of each digit character
DigitValues ==
    [c \in {HexDigits[i] : i \in 1..16} \cup {LowerHex[i] : i \in 1..6} |->
        IF \E i \in 1..16 : HexDigits[i] = c
        THEN (CHOOSE i \in 1..16 : HexDigits[i] = c) - 1
        ELSE (CHOOSE i \in 1..6 : LowerHex[i] = c) + 9]

\* value of the character c as a digit in the given radix, -1 if it is none
DigitVal(c, radix) ==
    IF c \in DOMAIN DigitValues /\ DigitValues[c] < radix
    THEN DigitValues[c] ELSE -1

RECURSIVE Pow2(_)
Pow2(n) == IF n = 0 THEN 1 ELSE 2 * Pow2(n - 1)

\* a bit sequence without its leading zeros
StripZeros(b) ==
    IF \A i \in 1..Len(b) : b[i] = 0 THEN <<>>
    ELSE SubSeq(b, CHOOSE i \in 1..Len(b) :
                       b[i] = 1 /\ \A j \in 1..(i - 1) : b[j] = 0, Len(b))

RECURSIVE NatToBits(_)
\* binary digits of a natural number, most significant first
NatToBits(n) == IF n = 0 THEN <<>> ELSE NatToBits(n \div 2) \o <<n % 2>>

RECURSIVE BitsToNat(_)
BitsToNat(b) ==
    IF b = <<>> THEN 0 ELSE 2 * BitsToNat(SubSeq(b, 1, Len(b) - 1)) + b[Len(b)]

RECURSIVE Inc(_)
\* b + 1 on a most-significant-first bit sequence
Inc(b) ==
    IF b = <<>> THEN <<1>>
    ELSE IF b[Len(b)] = 0 THEN SubSeq(b, 1, Len(b) - 1) \o <<1>>
    ELSE Inc(SubSeq(b, 1, Len(b) - 1)) \o <<0>>

\* significand width of an IEEE-754 double
MantissaBits == 53

\* the Number nearest to the integer with the given binary digits
\* (round to nearest, ties to even)
RoundDouble(b) ==
    IF Len(b) <= MantissaBits THEN b
    ELSE LET keep   == SubSeq(b, 1, MantissaBits)
             rest   == SubSeq(b, MantissaBits + 1, Len(b))
             sticky == \E i \in 2..Len(rest) : rest[i] = 1
             up     == rest[1] = 1 /\ (sticky \/ keep[MantissaBits] = 1)
         IN (IF up THEN Inc(keep) ELSE keep) \o [i \in 1..Len(rest) |-> 0]

NaNNum == [nan |-> TRUE, neg |-> FALSE, bits |-> <<>>]
Num(neg, b) == [nan |-> FALSE, neg |-> neg, bits |-> b]

\* the longest prefix of s made of digits of the radix
DigitPrefix(s, radix) ==
    IF \A i \in 1..Len(s) : DigitVal(s[i], radix) >= 0 THEN s
    ELSE SubSeq(s, 1, (CHOOSE i \in 1..Len(s) :
                          /\ DigitVal(s[i], radix) < 0
                          /\ \A j \in 1..(i - 1) : DigitVal(s[j], radix) >= 0) - 1)

\* binary digits of the integer written by the digits ds in radix 2 or
\* 16: one bit, or four bits, for each digit
DigitsToBits(ds, radix) ==
    <<>> \o
    (IF radix = 2 THEN [i \in 1..Len(ds) |-> DigitVal(ds[i], 2)]
     ELSE [i \in 1..(4 * Len(ds)) |->
             (DigitVal(ds[(i + 3) \div 4], 16) \div Pow2(3 - ((i - 1) % 4))) % 2])

RECURSIVE DecValue(_)
DecValue(ds) ==
    IF ds = <<>> THEN 0
    ELSE 10 * DecValue(SubSeq(ds, 1, Len(ds) - 1)) + DigitVal(ds[Len(ds)], 10)

RECURSIVE SkipSpaces(_)
SkipSpaces(s) == IF s # <<>> /\ Head(s) = " " THEN SkipSpaces(Tail(s)) ELSE s

\* parseInt(s, radix): leading blanks, an optional sign, for radix 16 an
\* optional 0x, then the longest run of digits; NaN when there is none.
\* parseInt(undefined) is NaN ("undefined" has no digit).
ParseInt(s, radix) ==
    LET t    == SkipSpaces(s)
        neg  == t # <<>> /\ Head(t) = "-"
        u    == IF t # <<>> /\ Head(t) \in {"-", "+"} THEN Tail(t) ELSE t
        w    == IF radix = 16 /\ Len(u) >= 2 /\ u[1] = "0" /\ u[2] \in {"x", "X"}
                THEN Tail(Tail(u)) ELSE u
        ds   == DigitPrefix(w, radix)
        bits == IF radix = 10 THEN NatToBits(DecValue(ds))
                ELSE StripZeros(DigitsToBits(ds, radix))
    IN IF s = Undefined \/ ds = <<>> THEN NaNNum
       ELSE Num(neg /\ bits # <<>>, RoundDouble(bits))

\* n.toString(2)
ToString2(n) ==
    IF n.nan THEN Str_NaN
    ELSE IF n.bits = <<>> THEN <<"0">>
    ELSE (IF n.neg THEN <<"-">> ELSE <<>>)
         \o [i \in 1..Len(n.bits) |-> IF n.bits[i] = 1 THEN "1" ELSE "0"]

\* the value of a Number known to be a small non-negative integer
NumToNat(n) == BitsToNat(n.bits)

(***************************** int32 ***************************************)
\* An int32 is the set of the positions of its one bits, position 0 the
\* least significant, position 31 the sign.

\* a + 1 (modulo 2^32)
Inc32(a) ==
    IF a = 0..31 THEN {}
    ELSE LET p == CHOOSE i \in 0..31 : i \notin a /\ \A j \in 0..(i - 1) : j \in a
         IN {i \in a : i > p} \cup {p}

\* a - 1 (modulo 2^32)
Dec32(a) ==
    IF a = {} THEN 0..31
    ELSE LET p == CHOOSE i \in a : \A j \in a : i <= j
         IN (a \ {p}) \cup 0..(p - 1)

\* -a in two's complement
Neg32(a) == Inc32((0..31) \ a)

\* ToInt32(n): the value modulo 2^32; NaN gives 0
ToInt32(n) ==
    IF n.nan THEN {}
    ELSE LET L   == Len(n.bits)
             mag == {i \in 0..31 : i < L /\ n.bits[L - i] = 1}
         IN IF n.neg THEN Neg32(mag) ELSE mag

\* a << s (the shift count is taken modulo 32)
Shl32(a, s) == {i + (s % 32) : i \in a} \cap 0..31

\* a >> s (sign-propagating; the shift count is taken modulo 32)
Sar32(a, s) ==
    {i - (s % 32) : i \in {j \in a : j >= s % 32}}
    \cup (IF 31 \in a THEN (32 - (s % 32))..31 ELSE {})

\* variant: the mask is not applied
And32_NoMask(a, b) == a

\* a & b
And32(a, b) == a \cap b

\* the binary digits of a non-negative int32
Bits32(a) ==
    IF a = {} THEN <<>>
    ELSE LET top == CHOOSE i \in a : \A j \in a : j <= i
         IN <<>> \o [i \in 1..(top + 1) |-> IF (top + 1 - i) \in a THEN 1 ELSE 0]

\* the Number an int32 stands for
NumOfInt32(a) ==
    IF 31 \notin a THEN Num(FALSE, Bits32(a))
    ELSE IF a = {31} THEN Num(TRUE, <<1>> \o [i \in 1..31 |-> 0])
    ELSE Num(TRUE, Bits32(Neg32(a)))

(***************************** registry ************************************)
\* a Flags table maps a flag name to <<bitPosition, bitSize>>
FLAGS_CAM_V2 ==
    [resolution_index |-> <<0, 7>>, tv_system |-> <<7, 1>>,
     framerate |-> <<8, 7>>, audio_index |-> <<15, 2>>,
     ai_pd |-> <<17, 1>>, ai_fd |-> <<18, 1>>,
     ai_vd |-> <<19, 1>>, ai_ad |-> <<20, 1>>,
     encoder_type_index |-> <<21, 2>>, is_schedule_record |-> <<23, 1>>,
     is_motion_record |-> <<24, 1>>, is_rf_record |-> <<25, 1>>,
     is_doorbell_record |-> <<26, 1>>, ai_other |-> <<27, 1>>]

FLAGS_HUB_V0 ==
    [resolution_index |-> <<0, 7>>, tv_system |-> <<7, 1>>,
     framerate |-> <<8, 7>>, audio_index |-> <<15, 2>>,
     ai_pd |-> <<17, 1>>, ai_fd |-> <<18, 1>>,
     ai_vd |-> <<19, 1>>, ai_ad |-> <<20, 1>>,
     encoder_type_index |-> <<21, 2>>, is_schedule_record |-> <<23, 1>>,
     is_motion_record |-> <<24, 1>>, is_rf_record |-> <<25, 1>>,
     is_doorbell_record |-> <<26, 1>>, is_ai_other_record |-> <<27, 1>>,
     picture_layout_index |-> <<28, 7>>, package_delivered |-> <<35, 1>>,
     package_takenaway |-> <<36, 1>>]

\* { ...FLAGS_HUB_V0, package_event: [37, 1] }
FLAGS_HUB_V1 == [package_event |-> <<37, 1>>] @@ FLAGS_HUB_V0

\* variant: encoder_type_index is put at bit 22, inside ai_other
FLAGS_HUB_V2_Overlap ==
    [resolution_index |-> <<0, 7>>, tv_system |-> <<7, 1>>,
     framerate |-> <<8, 7>>, audio_index |-> <<15, 2>>,
     ai_pd |-> <<17, 1>>, ai_fd |-> <<18, 1>>,
     ai_vd |-> <<19, 1>>, ai_ad |-> <<20, 1>>,
     ai_other |-> <<21, 2>>, encoder_type_index |-> <<22, 1>>,
     is_schedule_record |-> <<24, 1>>, is_motion_record |-> <<25, 1>>,
     is_rf_record |-> <<26, 1>>, is_doorbell_record |-> <<27, 1>>,
     picture_layout_index |-> <<28, 7>>, package_delivered |-> <<35, 1>>,
     package_takenaway |-> <<36, 1>>, package_event |-> <<37, 1>>,
     upload_flag |-> <<38, 1>>]

FLAGS_HUB_V2 ==
    [resolution_index |-> <<0, 7>>, tv_system |-> <<7, 1>>,
     framerate |-> <<8, 7>>, audio_index |-> <<15, 2>>,
     ai_pd |-> <<17, 1>>, ai_fd |-> <<18, 1>>,
     ai_vd |-> <<19, 1>>, ai_ad |-> <<20, 1>>,
     ai_other |-> <<21, 2>>, encoder_type_index |-> <<23, 1>>,
     is_schedule_record |-> <<24, 1>>, is_motion_record |-> <<25, 1>>,
     is_rf_record |-> <<26, 1>>, is_doorbell_record |-> <<27, 1>>,
     picture_layout_index |-> <<28, 7>>, package_delivered |-> <<35, 1>>,
     package_takenaway |-> <<36, 1>>, package_event |-> <<37, 1>>,
     upload_flag |-> <<38, 1>>]

\* variant: camera version 4 is given the length of versions 2 and 3
FLAGS_LENGTH_Cam4Short ==
    [cam |-> (2 :> 7 @@ 3 :> 7 @@ 4 :> 7 @@ 9 :> 14),
     hub |-> (2 :> 10)]

FLAGS_LENGTH ==
    [cam |-> (2 :> 7 @@ 3 :> 7 @@ 4 :> 9 @@ 9 :> 14),
     hub |-> (2 :> 10)]

\* variant: camera version 9 is given the layout of hub version 2
FLAGS_MAPPING_Cam9Hub ==
    [cam |-> (2 :> FLAGS_CAM_V2 @@ 3 :> FLAGS_CAM_V2 @@
              4 :> FLAGS_CAM_V2 @@ 9 :> FLAGS_HUB_V2),
     hub |-> (0 :> FLAGS_HUB_V0 @@ 1 :> FLAGS_HUB_V1 @@ 2 :> FLAGS_HUB_V2)]

FLAGS_MAPPING ==
    [cam |-> (2 :> FLAGS_CAM_V2 @@ 3 :> FLAGS_CAM_V2 @@
              4 :> FLAGS_CAM_V2 @@ 9 :> FLAGS_CAM_V2),
     hub |-> (0 :> FLAGS_HUB_V0 @@ 1 :> FLAGS_HUB_V1 @@ 2 :> FLAGS_HUB_V2)]

\* the registry object of types.ts that every call reads, the calls that
\* returned before the running one, and the saved variables of a second
\* call in flight
VARIABLES registry, history, other

\* the clip downloads of ReolinkCamera: the queue of clip paths to fetch,
\* the passes of the timer callback over it, whether getTokenData yields
\* a token, and the clips that have a local video file
VARIABLES videoclipsToFetch, drain, token, saved

clips == <<videoclipsToFetch, drain, token, saved>>

\* variant: a version that is not a number is looked up as 0
HasOwnProperty_NaNIsZero(obj, n) == NumToNat(n) \in DOMAIN obj

\* obj.hasOwnProperty(n) for a Number n: the key is the number's decimal
\* text, which names an own property only for the registered integers
HasOwnProperty(obj, n) ==
    ~n.nan /\ ~n.neg /\ Len(n.bits) <= 8 /\ NumToNat(n) \in DOMAIN obj

\* Math.max(...Object.keys(obj).map(Number))
MaxKey(obj) == CHOOSE k \in DOMAIN obj : \A j \in DOMAIN obj : j <= k

\* FLAGS_LENGTH[devType][version] || 0
ExpectedLength(devType, version) ==
    IF HasOwnProperty(registry.FLAGS_LENGTH[devType], version)
    THEN registry.FLAGS_LENGTH[devType][NumToNat(version)] ELSE 0

(***************************** decodeHexToFlags ****************************)
\* variant: the payload's bits are not reversed
HexIntRev_NoReverse(hexValue) == ParseInt(hexValue, 16)

\* parseInt(hexInt.toString(2).padStart(hexValue.length * 4, '0')
\*              .split('').reverse().join(''), 2)
HexIntRev(hexValue) ==
    LET hexInt == ParseInt(hexValue, 16)
    IN ParseInt(Reverse(PadStart(ToString2(hexInt), Len(hexValue) * 4, "0")), 2)

\* variant: the bits of the field are not reversed back
FlagNumber_NoReverse(hexIntRev, bitPosition, bitSize) ==
    LET mask       == Shl32(Dec32(Shl32({0}, bitSize)), bitPosition)
        flagValRev == NumOfInt32(Sar32(And32(ToInt32(hexIntRev), mask), bitPosition))
    IN ParseInt(PadStart(ToString2(flagValRev), bitSize, "0"), 2)

\* lines 9-11: the Number the loop of decodeHexToFlags stores for one
\* [bitPosition, bitSize]
FlagNumber(hexIntRev, bitPosition, bitSize) ==
    LET mask       == Shl32(Dec32(Shl32({0}, bitSize)), bitPosition)
        flagValRev == NumOfInt32(Sar32(And32(ToInt32(hexIntRev), mask), bitPosition))
    IN ParseInt(Reverse(PadStart(ToString2(flagValRev), bitSize, "0")), 2)

\* the stored Number as an integer of the model
FlagValue(hexIntRev, bitPosition, bitSize) ==
    NumToNat(FlagNumber(hexIntRev, bitPosition, bitSize))

\* decodeHexToFlags(hexValue, version, devType) for a version that
\* FLAGS_MAPPING[devType] has (Object.entries(undefined) throws otherwise)
decodeHexToFlags(hexValue, version, devType) ==
    LET flags     == registry.FLAGS_MAPPING[devType][NumToNat(version)]
        hexIntRev == HexIntRev(hexValue)
    IN [flag \in DOMAIN flags |->
            FlagValue(hexIntRev, flags[flag][1], flags[flag][2])]

(***************************** parseFileName *******************************)
\* the variables of one parseFileName call
VARIABLES fileName, pc, ext, name, split, version, devType,
          startDate, startTime, endTime, hexValue, fileSize,
          flagValues, detectionClasses, result, console

vars == <<fileName, pc, ext, name, split, version, devType,
          startDate, startTime, endTime, hexValue, fileSize,
          flagValues, detectionClasses, result, console,
          registry, history, other, clips>>

\* what a step of one call leaves alone: no line of parseFileName or
\* decodeHexToFlags assigns to the registry
shared == <<registry, history, other, clips>>

locals == <<startDate, startTime, endTime, hexValue, fileSize>>

NoFlags == [flag \in {} |-> 0]

\* one console call: its level, its message and the values it interpolates
Entry(level, msg, args) == [level |-> level, msg |-> msg, args |-> args]

Last(s) == s[Len(s)]

\* variant: a name without a '.' is its own stem
PathNameAndExt_WholeWhenNoDot(f) ==
    LET dots == Split(f, ".")
        stem == IF Len(dots) = 1 THEN f
                ELSE Join(SubSeq(dots, 1, Len(dots) - 1), ".")
    IN <<Last(Split(stem, "/")), Last(dots)>>

\* fileName.split('.').slice(0, -1).join('.').split('/').slice(-1)
\*         .concat(fileName.split('.').pop())
PathNameAndExt(f) ==
    LET dots == Split(f, ".")
        stem == Join(SubSeq(dots, 1, Len(dots) - 1), ".")
    IN <<Last(Split(stem, "/")), Last(dots)>>

\* lines 23-25: pathName, ext, name, split
Tokenize ==
    /\ pc = "tokenize"
    /\ UNCHANGED shared
    /\ LET pe == PathNameAndExt(fileName)
           nm == Last(Split(pe[1], "/"))
       IN /\ ext' = pe[2]
          /\ name' = nm
          /\ split' = Split(nm, "_")
    /\ pc' = "header"
    /\ UNCHANGED <<fileName, version, devType, locals, flagValues,
                   detectionClasses, result, console>>

\* variant: the length of the header is not checked
HeaderMatches_NoLength(tok) == StartsWith(tok, Str_Rec)

\* variant: only main-stream headers, "RecM", are taken
HeaderMatches_RecM(tok) ==
    StartsWith(tok, <<"R", "e", "c", "M">>) /\ Len(tok) = 6

\* split[0].startsWith("Rec") && split[0].length === 6
HeaderMatches(tok) == StartsWith(tok, Str_Rec) /\ Len(tok) = 6

\* split[0][5]
VersionChar(tok) == IF Len(tok) >= 6 THEN <<tok[6]>> ELSE Undefined

\* lines 27-33: the header check, the version digit, the default devType
CheckHeader ==
    /\ pc = "header"
    /\ UNCHANGED shared
    /\ IF ~HeaderMatches(split[1])
       THEN /\ console' = Append(console,
                    Entry("debug", "could not find version", <<>>))
            /\ result' = "null"
            /\ pc' = "done"
            /\ UNCHANGED <<version, devType>>
       ELSE /\ version' = ParseInt(VersionChar(split[1]), 10)
            /\ devType' = "cam"
            /\ pc' = "select"
            /\ UNCHANGED <<console, result>>
    /\ UNCHANGED <<fileName, ext, name, split, locals, flagValues,
                   detectionClasses>>

\* variant: every name of nine tokens or more is taken for a hub name
TokenLayout_AtLeast9(n) ==
    IF n = 6 THEN <<"cam", 2, 3, 4, 5, 6>>
    ELSE IF n >= 9 THEN <<"hub", 2, 3, 4, 8, 9>>
    ELSE <<>>

\* variant: a hub name's payload is read where a camera name has it
TokenLayout_HubLikeCam(n) ==
    IF n = 6 THEN <<"cam", 2, 3, 4, 5, 6>>
    ELSE IF n = 9 THEN <<"hub", 2, 3, 4, 5, 6>>
    ELSE <<>>

\* lines 36-56: which device type a token count means and where its tokens
\* are (1-based): <<devType, startDate, startTime, endTime, hexValue,
\* fileSize>>, or <<>> for a count that is no known format
TokenLayout(n) ==
    IF n = 6 THEN <<"cam", 2, 3, 4, 5, 6>>
    ELSE IF n = 9 THEN <<"hub", 2, 3, 4, 8, 9>>
    ELSE <<>>

\* lines 34-56
SelectTokens ==
    /\ pc = "select"
    /\ UNCHANGED shared
    /\ LET lay == TokenLayout(Len(split))
       IN IF lay = <<>>
          THEN /\ console' = Append(console,
                       Entry("debug", "unknown length", <<>>))
               /\ result' = "null"
               /\ pc' = "done"
               /\ UNCHANGED <<devType, locals>>
          ELSE /\ devType' = lay[1]
               /\ startDate' = split[lay[2]]
               /\ startTime' = split[lay[3]]
               /\ endTime' = split[lay[4]]
               /\ hexValue' = split[lay[5]]
               /\ fileSize' = split[lay[6]]
               /\ pc' = "resolve"
               /\ UNCHANGED <<console, result>>
    /\ UNCHANGED <<fileName, ext, name, split, version, flagValues,
                   detectionClasses>>

\* variant: the fallback is the lowest registered version
FallbackVersion_Lowest(dt) ==
    CHOOSE k \in DOMAIN registry.FLAGS_MAPPING[dt] :
        \A j \in DOMAIN registry.FLAGS_MAPPING[dt] : k <= j

\* line 59: the version used for a version the registry does not have
FallbackVersion(dt) == MaxKey(registry.FLAGS_MAPPING[dt])

\* variant: the fallback is reported but the version is not rebound
ResolveSchema_KeepVersion ==
    /\ pc = "resolve"
    /\ UNCHANGED shared
    /\ IF ~HasOwnProperty(registry.FLAGS_MAPPING[devType], version)
       THEN console' = Append(console,
                Entry("debug", "not yet known",
                      <<version, Len(hexValue), MaxKey(registry.FLAGS_MAPPING[devType])>>))
       ELSE UNCHANGED console
    /\ pc' = "length"
    /\ UNCHANGED <<fileName, ext, name, split, version, devType, locals,
                   flagValues, detectionClasses, result>>

\* variant: the fallback is entered into the registry under the version
\* that was not known
ResolveSchema_Registers ==
    /\ pc = "resolve"
    /\ UNCHANGED <<history, other, clips>>
    /\ IF ~HasOwnProperty(registry.FLAGS_MAPPING[devType], version)
       THEN LET newVersion == FallbackVersion(devType)
            IN /\ console' = Append(console,
                       Entry("debug", "not yet known",
                             <<version, Len(hexValue), newVersion>>))
               /\ registry' =
                    [registry EXCEPT !.FLAGS_MAPPING[devType] =
                        (NumToNat(version) :> @[newVersion]) @@ @]
               /\ UNCHANGED version
       ELSE UNCHANGED <<console, version, registry>>
    /\ pc' = "length"
    /\ UNCHANGED <<fileName, ext, name, split, devType, locals, flagValues,
                   detectionClasses, result>>

\* lines 58-62
ResolveSchema ==
    /\ pc = "resolve"
    /\ UNCHANGED shared
    /\ IF ~HasOwnProperty(registry.FLAGS_MAPPING[devType], version)
       THEN LET newVersion == FallbackVersion(devType)
            IN /\ console' = Append(console,
                       Entry("debug", "not yet known",
                             <<version, Len(hexValue), newVersion>>))
               /\ version' = Num(FALSE, NatToBits(newVersion))
       ELSE UNCHANGED <<console, version>>
    /\ pc' = "length"
    /\ UNCHANGED <<fileName, ext, name, split, devType, locals, flagValues,
                   detectionClasses, result>>

\* variant: a payload of unexpected length is rejected
CheckLength_Rejects ==
    /\ pc = "length"
    /\ UNCHANGED shared
    /\ IF Len(hexValue) # ExpectedLength(devType, version)
       THEN /\ console' = Append(console,
                    Entry("debug", "unexpected hex length",
                          <<version, Len(hexValue), ExpectedLength(devType, version)>>))
            /\ result' = "null"
            /\ pc' = "done"
       ELSE /\ pc' = "decode"
            /\ UNCHANGED <<console, result>>
    /\ UNCHANGED <<fileName, ext, name, split, version, devType, locals,
                   flagValues, detectionClasses>>

\* variant: a length that was not expected is entered into the registry
CheckLength_Learns ==
    /\ pc = "length"
    /\ UNCHANGED <<history, other, clips>>
    /\ IF Len(hexValue) # ExpectedLength(devType, version)
       THEN /\ console' = Append(console,
                    Entry("debug", "unexpected hex length",
                          <<version, Len(hexValue), ExpectedLength(devType, version)>>))
            /\ registry' =
                 [registry EXCEPT !.FLAGS_LENGTH[devType] =
                     (NumToNat(version) :> Len(hexValue)) @@ @]
       ELSE UNCHANGED <<console, registry>>
    /\ pc' = "decode"
    /\ UNCHANGED <<fileName, ext, name, split, version, devType, locals,
                   flagValues, detectionClasses, result>>

\* lines 64-66
CheckLength ==
    /\ pc = "length"
    /\ UNCHANGED shared
    /\ IF Len(hexValue) # ExpectedLength(devType, version)
       THEN console' = Append(console,
                Entry("debug", "unexpected hex length",
                      <<version, Len(hexValue), ExpectedLength(devType, version)>>))
       ELSE UNCHANGED console
    /\ pc' = "decode"
    /\ UNCHANGED <<fileName, ext, name, split, version, devType, locals,
                   flagValues, detectionClasses, result>>

\* lines 68-69
Decode ==
    /\ pc = "decode"
    /\ UNCHANGED shared
    /\ IF HasOwnProperty(registry.FLAGS_MAPPING[devType], version)
       THEN /\ flagValues' = decodeHexToFlags(hexValue, version, devType)
            /\ console' = Append(console,
                    Entry("log", "flags", <<hexValue, version, devType>>))
            /\ pc' = "classify"
            /\ UNCHANGED result
       ELSE /\ result' = "TypeError"
            /\ pc' = "done"
            /\ UNCHANGED <<flagValues, console>>
    /\ UNCHANGED <<fileName, ext, name, split, version, devType, locals,
                   detectionClasses>>

\* if (flagValues[key]): a missing key is undefined, 0 is falsy
Truthy(fv, key) == key \in DOMAIN fv /\ fv[key] # 0

\* variant: the checks are one else-if chain, only the first class is kept
DetectionClasses_FirstOnly(fv) ==
    IF Truthy(fv, "ai_pd") THEN <<"person">>
    ELSE IF Truthy(fv, "ai_vd") THEN <<"vehicle">>
    ELSE IF Truthy(fv, "ai_ad") THEN <<"animal">>
    ELSE IF Truthy(fv, "package_event") THEN <<"package">>
    ELSE <<"motion">>

\* variant: motion is checked before the object classes
DetectionClasses_MotionFirst(fv) ==
    LET pushed ==
            (IF Truthy(fv, "is_motion_record") THEN <<"motion">> ELSE <<>>)
         \o (IF Truthy(fv, "ai_pd") THEN <<"person">> ELSE <<>>)
         \o (IF Truthy(fv, "ai_vd") THEN <<"vehicle">> ELSE <<>>)
         \o (IF Truthy(fv, "ai_ad") THEN <<"animal">> ELSE <<>>)
         \o (IF Truthy(fv, "package_event") THEN <<"package">> ELSE <<>>)
    IN IF Len(pushed) = 0 THEN <<"motion">> ELSE pushed

\* variant: a detected face counts as a person
DetectionClasses_FaceIsPerson(fv) ==
    LET pushed ==
            (IF Truthy(fv, "ai_pd") \/ Truthy(fv, "ai_fd")
             THEN <<"person">> ELSE <<>>)
         \o (IF Truthy(fv, "ai_vd") THEN <<"vehicle">> ELSE <<>>)
         \o (IF Truthy(fv, "ai_ad") THEN <<"animal">> ELSE <<>>)
         \o (IF Truthy(fv, "is_motion_record") THEN <<"motion">> ELSE <<>>)
         \o (IF Truthy(fv, "package_event") THEN <<"package">> ELSE <<>>)
    IN IF Len(pushed) = 0 THEN <<"motion">> ELSE pushed

\* variant: a delivered package counts as a package event
DetectionClasses_DeliveredIsPackage(fv) ==
    LET pushed ==
            (IF Truthy(fv, "ai_pd") THEN <<"person">> ELSE <<>>)
         \o (IF Truthy(fv, "ai_vd") THEN <<"vehicle">> ELSE <<>>)
         \o (IF Truthy(fv, "ai_ad") THEN <<"animal">> ELSE <<>>)
         \o (IF Truthy(fv, "is_motion_record") THEN <<"motion">> ELSE <<>>)
         \o (IF Truthy(fv, "package_event") \/ Truthy(fv, "package_delivered")
             THEN <<"package">> ELSE <<>>)
    IN IF Len(pushed) = 0 THEN <<"motion">> ELSE pushed

\* lines 71-87
DetectionClasses(fv) ==
    LET pushed ==
            (IF Truthy(fv, "ai_pd") THEN <<"person">> ELSE <<>>)
         \o (IF Truthy(fv, "ai_vd") THEN <<"vehicle">> ELSE <<>>)
         \o (IF Truthy(fv, "ai_ad") THEN <<"animal">> ELSE <<>>)
         \o (IF Truthy(fv, "is_motion_record") THEN <<"motion">> ELSE <<>>)
         \o (IF Truthy(fv, "package_event") THEN <<"package">> ELSE <<>>)
    IN IF Len(pushed) = 0 THEN <<"motion">> ELSE pushed

\* lines 71-95
Classify ==
    /\ pc = "classify"
    /\ UNCHANGED shared
    /\ detectionClasses' = DetectionClasses(flagValues)
    /\ result' = "ok"
    /\ pc' = "done"
    /\ UNCHANGED <<fileName, ext, name, split, version, devType, locals,
                   flagValues, console>>

\* lines 17-95 as one function of the name: <<"null", <<>>>> for a
\* return of null, <<"ok", detectionClasses>> for a returned object
parseFileName(f) ==
    LET sp == Split(Last(Split(PathNameAndExt(f)[1], "/")), "_")
    IN IF ~HeaderMatches(sp[1]) THEN <<"null", <<>>>>
       ELSE LET lay == TokenLayout(Len(sp))
            IN IF lay = <<>> THEN <<"null", <<>>>>
               ELSE LET parsed == ParseInt(VersionChar(sp[1]), 10)
                        dt     == lay[1]
                        v      == IF HasOwnProperty(registry.FLAGS_MAPPING[dt], parsed)
                                  THEN parsed
                                  ELSE Num(FALSE, NatToBits(FallbackVersion(dt)))
                    IN <<"ok", DetectionClasses(
                                  decodeHexToFlags(sp[lay[5]], v, dt))>>

(***************************** inputs **************************************)
RECURSIVE BitsToHex(_)
\* the hex text of a bit sequence whose length is a multiple of 4
BitsToHex(b) ==
    IF b = <<>> THEN <<>>
    ELSE <<HexDigits[BitsToNat(SubSeq(b, 1, 4)) + 1]>>
         \o BitsToHex(SubSeq(b, 5, Len(b)))

\* the payload of n hex characters whose one bits are those at the
\* positions of S, position 0 being the most significant bit
PatternPayload(n, S) ==
    BitsToHex([i \in 1..(4 * n) |-> IF (i - 1) \in S THEN 1 ELSE 0])

Schemas ==
    {FLAGS_MAPPING[dt][v] : dt \in {"cam"}, v \in DOMAIN FLAGS_MAPPING["cam"]}
    \cup {FLAGS_MAPPING[dt][v] : dt \in {"hub"}, v \in DOMAIN FLAGS_MAPPING["hub"]}

\* the <<bitPosition, bitSize>> pairs of the registry
FieldRanges == UNION {{fl[f] : f \in DOMAIN fl} : fl \in Schemas}

Range(r) == r[1]..(r[1] + r[2] - 1)

\* payloads of hex digits: all zeros, all ones, first and last bit, one
\* bit, and the bits of one registry field, for every length
HexPayloads ==
    UNION {
        {PatternPayload(n, {}), PatternPayload(n, 0..(4 * n - 1)),
         PatternPayload(n, {0, 4 * n - 1})}
        \cup {PatternPayload(n, {i}) : i \in 0..(4 * n - 1)}
        \cup {PatternPayload(n, Range(r)) : r \in FieldRanges}
        : n \in 0..MaxHexLen}

\* payload tokens of the source's sample names
SamplePayloads ==
    {<<"6", "D", "2", "8", "8", "0", "8">>,
     <<"2", "B", "1", "4", "8", "0", "8">>,
     <<"0", "3", "3", "C", "8", "2", "0", "0", "0", "0">>}

\* payload tokens that are not plain hex text
OddPayloads ==
    {<<"G">>, <<"6", "G">>, <<"-", "5">>, <<"0", "x", "1", "F">>}

\* the bit positions the detection classes are read from, in any schema
ClassBits == {5, 17, 19, 20, 24, 25, 37}

\* payloads of the registered lengths 7 and 10 over every combination of
\* the bits the detection classes are read from
ClassPayloads ==
    {PatternPayload(n, S) :
        n \in {7, 10}, S \in SUBSET {b \in ClassBits : b < 4 * 7}}
    \cup {PatternPayload(10, S \cup {37}) :
            S \in SUBSET {b \in ClassBits : b < 4 * 7}}

Payloads == HexPayloads \cup SamplePayloads \cup OddPayloads \cup ClassPayloads

\* the sixth character of a generated header
VersionChars == {"0", "1", "2", "3", "4", "9", "X"}

\* tokens a generated name carries besides its header and payload
Fillers == {<<"0">>, <<"F", "F", "F", "F", "F", "F", "F", "F", "F", "F">>}

\* a base name of n tokens: the header, the payload where a name of that
\* many tokens carries it (the fifth token of a short name), fillers
BaseName(header, n, payload, filler) ==
    Join([i \in 1..n |->
             IF i = 1 THEN header
             ELSE IF i = (IF n = 9 THEN 8 ELSE 5) THEN payload
             ELSE filler], "_")

Ext_mp4 == <<".", "m", "p", "4">>

\* well-formed camera and hub names over every payload
WellFormedNames ==
    {BaseName(<<"R", "e", "c", "M", "0", vc>>, n, p, <<"0">>) \o Ext_mp4 :
        vc \in VersionChars, n \in {6, 9}, p \in Payloads}

Dirs ==
    {<<>>, <<"d", "/">>, <<"a", ".", "b", "/">>,
     <<"R", "e", "c", "S", "0", "2", "_", "0", "_", "0", "_", "0", "_", "0", "0", "_", "0", ".", "x", "/">>}

Headers ==
    {<<"R", "e", "c", "M", "0", "2">>, <<"R", "e", "c", "S", "0", "9">>, <<"R", "e", "c", "M", "2">>,
     <<"R", "e", "c", "M", "0", "0", "2">>, <<"X", "e", "c", "M", "0", "2">>, <<"R", "e", "c">>}

\* names of every shape: directory, header, token count, extension
ShapedNames ==
    {d \o BaseName(h, n, p, fl) \o e :
        d \in Dirs, h \in Headers, n \in 1..MaxTokens, e \in {<<>>, Ext_mp4},
        p \in SamplePayloads \cup {<<>>}, fl \in Fillers}

\* the names of the source's comments and of the format's tests
SampleNames ==
    {<<"M", "p", "4", "R", "e", "c", "o", "r", "d", "/", "2", "0", "2", "3", "-", "0", "4", "-", "2", "6", "/", "R", "e", "c", "S", "0", "2", "_", "D", "S", "T", "2", "0", "2", "3", "0", "4", "2", "6", "_", "1", "4", "5", "9", "1", "8", "_", "1", "5", "0", "0", "3", "2", "_", "2", "B", "1", "4", "8", "0", "8", "_", "3", "2", "F", "1", "D", "F", ".", "m", "p", "4">>,
     <<"M", "p", "4", "R", "e", "c", "o", "r", "d", "/", "2", "0", "2", "0", "-", "1", "2", "-", "2", "2", "/", "R", "e", "c", "M", "0", "1", "_", "2", "0", "2", "0", "1", "2", "2", "2", "_", "0", "7", "5", "9", "3", "9", "_", "0", "8", "0", "1", "4", "0", "_", "6", "D", "2", "8", "8", "0", "8", "_", "1", "A", "4", "6", "8", "F", "9", ".", "m", "p", "4">>,
     <<"/", "m", "n", "t", "/", "s", "d", "a", "/", "U", "I", "D", "-", "N", "A", "M", "E", "/", "M", "p", "4", "R", "e", "c", "o", "r", "d", "/", "2", "0", "2", "4", "-", "0", "8", "-", "2", "7", "/", "R", "e", "c", "M", "0", "2", "_", "D", "S", "T", "2", "0", "2", "4", "0", "8", "2", "7", "_", "0", "9", "0", "3", "0", "2", "_", "0", "9", "0", "3", "3", "4", "_", "0", "_", "8", "0", "0", "_", "8", "0", "0", "_", "0", "3", "3", "C", "8", "2", "0", "0", "0", "0", "_", "6", "1", "B", "6", "F", "0", ".", "m", "p", "4">>,
     <<"r", "a", "n", "d", "o", "m", "f", "i", "l", "e", ".", "m", "p", "4">>,
     <<"R", "e", "c", ".", "m", "p", "4">>}

FileNames == WellFormedNames \cup ShapedNames \cup SampleNames

DotDir ==
    <<"R", "e", "c", "S", "0", "2", "_", "0", "_", "0", "_", "0", "_", "0", "0", "_", "0", ".", "x", "/">>

\* the names of a series of calls: registered camera names whose payloads
\* differ in fields the classes are and are not read from, a camera name
\* of an unregistered version, a hub name, a name in a directory, names
\* that fail the header and the token count, and a name without extension
\* with and without a directory that has a dot
CallNames ==
    {BaseName(<<"R", "e", "c", "M", "0", "2">>, 6, p, <<"0">>) \o Ext_mp4 :
        p \in {<<"6", "D", "2", "8", "8", "0", "8">>,
               PatternPayload(7, {18}), PatternPayload(7, {})}}
    \cup {BaseName(<<"R", "e", "c", "M", "0", "1">>, 6,
                   <<"6", "D", "2", "8", "8", "0", "8">>, <<"0">>) \o Ext_mp4,
          BaseName(<<"R", "e", "c", "M", "0", "2">>, 9,
                   <<"0", "3", "3", "C", "8", "2", "0", "0", "0", "0">>, <<"0">>) \o Ext_mp4,
          <<"d", "/">> \o BaseName(<<"R", "e", "c", "M", "0", "2">>, 6,
                   <<"6", "D", "2", "8", "8", "0", "8">>, <<"0">>) \o Ext_mp4,
          BaseName(<<"R", "e", "c", "M", "0", "2">>, 7, <<"0">>, <<"0">>) \o Ext_mp4,
          <<"r", "a", "n", "d", "o", "m", "f", "i", "l", "e", ".", "m", "p", "4">>,
          <<"R", "e", "c">>,
          DotDir \o <<"R", "e", "c">>}

(***************************** specification *******************************)
\* the registry as types.ts builds it when the module is loaded
Registry == [FLAGS_MAPPING |-> FLAGS_MAPPING, FLAGS_LENGTH |-> FLAGS_LENGTH]

\* no second call
NoCall == [pc |-> "none"]

\* the variables of a call at its entry
Fresh ==
    /\ pc = "tokenize"
    /\ ext = Undefined
    /\ name = Undefined
    /\ split = Undefined
    /\ version = Undefined
    /\ devType = Undefined
    /\ startDate = Undefined
    /\ startTime = Undefined
    /\ endTime = Undefined
    /\ hexValue = Undefined
    /\ fileSize = Undefined
    /\ flagValues = NoFlags
    /\ detectionClasses = <<>>
    /\ result = "pending"

\* the variables of the call that is running
Context ==
    [fileName |-> fileName, pc |-> pc, ext |-> ext, name |-> name,
     split |-> split, version |-> version, devType |-> devType,
     startDate |-> startDate, startTime |-> startTime, endTime |-> endTime,
     hexValue |-> hexValue, fileSize |-> fileSize,
     flagValues |-> flagValues, detectionClasses |-> detectionClasses,
     result |-> result]

\* the variables of a call on f that has not made a step
FreshContext(f) ==
    [fileName |-> f, pc |-> "tokenize", ext |-> Undefined, name |-> Undefined,
     split |-> Undefined, version |-> Undefined, devType |-> Undefined,
     startDate |-> Undefined, startTime |-> Undefined, endTime |-> Undefined,
     hexValue |-> Undefined, fileSize |-> Undefined,
     flagValues |-> NoFlags, detectionClasses |-> <<>>,
     result |-> "pending"]

\* the timer callbacks whose passes can be under way at once, and the
\* clip paths
DrainIds == 1..MaxDrains
Paths == 1..MaxPaths

\* a timer callback that is not in a pass
IdleDrain == [pc |-> "idle", path |-> 0]

\* a camera object as constructed: videoclipsToFetch = [], no pass under
\* way, no local clip; a token can be had
NoClips ==
    /\ videoclipsToFetch = <<>>
    /\ drain = [d \in DrainIds |-> IdleDrain]
    /\ token = TRUE
    /\ saved = {}

\* one call
Init ==
    /\ fileName \in FileNames
    /\ Fresh
    /\ console = <<>>
    /\ registry = Registry
    /\ history = <<>>
    /\ other = NoCall
    /\ NoClips

Next ==
    \/ Tokenize
    \/ CheckHeader
    \/ SelectTokens
    \/ ResolveSchema
    \/ CheckLength
    \/ Decode
    \/ Classify

Spec == Init /\ [][Next]_vars

\* what a returned call leaves to its caller: the name it was given, its
\* result, and the messages it wrote; and what it decoded on the way
CallRecord ==
    [fileName |-> fileName, result |-> result,
     detectionClasses |-> detectionClasses, console |-> console,
     devType |-> devType, version |-> version, flagValues |-> flagValues]

\* the caller makes its next call once the last one has returned: the
\* new call has its own variables (lines 17-34) and the same registry
NextCall ==
    /\ pc = "done"
    /\ Len(history) < MaxCalls - 1
    /\ history' = Append(history, CallRecord)
    /\ fileName' \in CallNames
    /\ pc' = "tokenize"
    /\ ext' = Undefined
    /\ name' = Undefined
    /\ split' = Undefined
    /\ version' = Undefined
    /\ devType' = Undefined
    /\ startDate' = Undefined
    /\ startTime' = Undefined
    /\ endTime' = Undefined
    /\ hexValue' = Undefined
    /\ fileSize' = Undefined
    /\ flagValues' = NoFlags
    /\ detectionClasses' = <<>>
    /\ result' = "pending"
    /\ console' = <<>>
    /\ UNCHANGED <<registry, other, clips>>

\* a series of calls, one after the other
InitCalls ==
    /\ fileName \in CallNames
    /\ Fresh
    /\ console = <<>>
    /\ registry = Registry
    /\ history = <<>>
    /\ other = NoCall
    /\ NoClips

NextCalls ==
    \/ Tokenize
    \/ CheckHeader
    \/ SelectTokens
    \/ ResolveSchema
    \/ CheckLength
    \/ Decode
    \/ Classify
    \/ NextCall

SpecCalls == InitCalls /\ [][NextCalls]_vars

\* variant: hexValue is one variable of the module, not one of each call
Switch_SharedHexValue ==
    /\ other.pc # "none"
    /\ other' = Context
    /\ fileName' = other.fileName
    /\ pc' = other.pc
    /\ ext' = other.ext
    /\ name' = other.name
    /\ split' = other.split
    /\ version' = other.version
    /\ devType' = other.devType
    /\ startDate' = other.startDate
    /\ startTime' = other.startTime
    /\ endTime' = other.endTime
    /\ fileSize' = other.fileSize
    /\ flagValues' = other.flagValues
    /\ detectionClasses' = other.detectionClasses
    /\ result' = other.result
    /\ UNCHANGED <<hexValue, console, registry, history, clips>>

\* the running call is suspended and the other call runs: every variable
\* parseFileName declares (lines 23-34, 68, 71) is a variable of the call;
\* the console and the registry are the same objects for both
Switch ==
    /\ other.pc # "none"
    /\ other' = Context
    /\ fileName' = other.fileName
    /\ pc' = other.pc
    /\ ext' = other.ext
    /\ name' = other.name
    /\ split' = other.split
    /\ version' = other.version
    /\ devType' = other.devType
    /\ startDate' = other.startDate
    /\ startTime' = other.startTime
    /\ endTime' = other.endTime
    /\ hexValue' = other.hexValue
    /\ fileSize' = other.fileSize
    /\ flagValues' = other.flagValues
    /\ detectionClasses' = other.detectionClasses
    /\ result' = other.result
    /\ UNCHANGED <<console, registry, history, clips>>

\* two calls at once, their steps interleaved in every order, or one call
\* alone
InitConc ==
    /\ fileName \in CallNames
    /\ Fresh
    /\ console = <<>>
    /\ registry = Registry
    /\ history = <<>>
    /\ other \in {FreshContext(f) : f \in CallNames} \cup {NoCall}
    /\ NoClips

NextConc ==
    \/ Tokenize
    \/ CheckHeader
    \/ SelectTokens
    \/ ResolveSchema
    \/ CheckLength
    \/ Decode
    \/ Classify
    \/ Switch

SpecConc == InitConc /\ [][NextConc]_vars

(***************************** clip downloads *****************************)
\* the variables of the parseFileName calls
calls == <<fileName, pc, ext, name, split, version, devType,
           startDate, startTime, endTime, hexValue, fileSize,
           flagValues, detectionClasses, result, console,
           registry, history, other>>

\* this.videoclipsToFetch.includes(p)
Includes(q, p) == \E i \in 1..Len(q) : q[i] = p

\* part_000 lines 932-949, for one clip of the response: findLocalVideoClip
\* throws without a token (the catch of line 978 logs it), and a clip that
\* has no local video is pushed unless the queue includes it
GetVideoClips(p) ==
    /\ videoclipsToFetch' =
          IF token /\ p \notin saved /\ ~Includes(videoclipsToFetch, p)
          THEN Append(videoclipsToFetch, p)
          ELSE videoclipsToFetch
    /\ UNCHANGED <<drain, token, saved, calls>>

\* lines 237-238 and 244: with q in the queue, the loop shifts its head
\* and awaits the fetch of it, or the pass ends when q is empty
Continue(d, q) ==
    IF Len(q) > 0
    THEN /\ videoclipsToFetch' = Tail(q)
         /\ drain' = [drain EXCEPT ![d] = [pc |-> "fetch", path |-> Head(q)]]
    ELSE /\ videoclipsToFetch' = q
         /\ drain' = [drain EXCEPT ![d] = IdleDrain]

\* lines 233-238: the timer fires, also while an earlier callback awaits a
\* fetch; with a non-empty queue a pass starts and shifts the first path
Tick(d) ==
    /\ drain[d].pc = "idle"
    /\ Len(videoclipsToFetch) > 0
    /\ Continue(d, videoclipsToFetch)
    /\ UNCHANGED <<token, saved, calls>>

\* lines 239 and 881-912: with a token the promise of fetchAndSaveClip
\* is fulfilled, the clip downloaded or the download's error caught and
\* logged
FetchReturns(d) ==
    /\ drain[d].pc = "fetch"
    /\ token
    /\ \E downloaded \in BOOLEAN :
          saved' = IF downloaded THEN saved \cup {drain[d].path} ELSE saved
    /\ drain' = [drain EXCEPT ![d].pc = "returned"]
    /\ UNCHANGED <<videoclipsToFetch, token, calls>>

\* lines 239, 882 and part_002 lines 485-489: without a token
\* getVideoClipUrl throws and the promise of fetchAndSaveClip is rejected
FetchThrows(d) ==
    /\ drain[d].pc = "fetch"
    /\ ~token
    /\ drain' = [drain EXCEPT ![d].pc = "thrown"]
    /\ UNCHANGED <<videoclipsToFetch, token, saved, calls>>

\* lines 240-244: the callback resumes after the await; the catch pushes
\* the path of a rejected fetch back, and the loop goes on while the queue
\* is not empty
Resume(d) ==
    /\ drain[d].pc \in {"returned", "thrown"}
    /\ Continue(d, IF drain[d].pc = "thrown"
                   THEN Append(videoclipsToFetch, drain[d].path)
                   ELSE videoclipsToFetch)
    /\ UNCHANGED <<token, saved, calls>>

\* part_002 lines 87-107 and 138: the token's lease runs out or the camera
\* refuses it and no new one can be had, or a new one is had
TokenChange ==
    /\ token' = ~token
    /\ UNCHANGED <<videoclipsToFetch, drain, saved, calls>>

\* a camera object, its getVideoClips calls and its clip timer
InitClips ==
    /\ fileName = Undefined
    /\ Fresh
    /\ console = <<>>
    /\ registry = Registry
    /\ history = <<>>
    /\ other = NoCall
    /\ NoClips

NextClips ==
    \/ \E p \in Paths : GetVideoClips(p)
    \/ \E d \in DrainIds : Tick(d)
    \/ \E d \in DrainIds : FetchReturns(d)
    \/ \E d \in DrainIds : FetchThrows(d)
    \/ \E d \in DrainIds : Resume(d)
    \/ TokenChange

SpecClips == InitClips /\ [][NextClips]_vars

\* the queues getVideoClips can have built: no path twice
RECURSIVE Queues(_)
Queues(S) ==
    {<<>>} \cup UNION {{<<p>> \o q : q \in Queues(S \ {p})} : p \in S}

\* the clip timer over a queue that getVideoClips calls have built, with
\* no getVideoClips call while it runs
InitDrain ==
    /\ fileName = Undefined
    /\ Fresh
    /\ console = <<>>
    /\ registry = Registry
    /\ history = <<>>
    /\ other = NoCall
    /\ videoclipsToFetch \in Queues(Paths)
    /\ drain = [d \in DrainIds |-> IdleDrain]
    /\ token \in BOOLEAN
    /\ saved = {}

NextDrain ==
    \/ \E d \in DrainIds : Tick(d)
    \/ \E d \in DrainIds : FetchReturns(d)
    \/ \E d \in DrainIds : FetchThrows(d)
    \/ \E d \in DrainIds : Resume(d)
    \/ TokenChange

\* the timer keeps firing, every awaited fetch settles and the callback
\* resumes after it; nothing makes a token available
SpecDrain ==
    /\ InitDrain
    /\ [][NextDrain]_vars
    /\ \A d \in DrainIds :
          /\ WF_vars(Tick(d))
          /\ WF_vars(FetchReturns(d) \/ FetchThrows(d))
          /\ WF_vars(Resume(d))

(***************************** properties **********************************)
\* the flags have been decoded
Decoded == pc = "classify" \/ (pc = "done" /\ result = "ok")

\* the call has returned
Returned == pc = "done"

\* plain hexadecimal text
IsHex(s) == \A i \in 1..Len(s) : DigitVal(s[i], 16) >= 0

\* the schema the call resolved
ResolvedFlags == FLAGS_MAPPING[devType][NumToNat(version)]

\* a well-formed header token: "Rec", two characters, one version character
GoodHeader(tok) ==
    Len(tok) = 6 /\ tok[1] = "R" /\ tok[2] = "e" /\ tok[3] = "c"

\* the name has a good header and 6 or 9 tokens, and the call is past
\* the checks of both
Accepted ==
    /\ pc \in {"resolve", "length", "decode", "classify", "done"}
    /\ GoodHeader(split[1])
    /\ Len(split) \in {6, 9}

\* how many console.debug calls carried the message
DebugCount(msg) ==
    Cardinality({i \in 1..Len(console) :
                    console[i].level = "debug" /\ console[i].msg = msg})

\* The decoding algorithm of the format description, over unbounded
\* integers.  Bit i of raw_rev is bit (4 * len - 1 - i) of raw, that is
\* character i (from 0) of the payload's binary text padded to 4 * len;
\* it is zero past the end of that text.
RawRevBit(payload, i) ==
    IF i < 4 * Len(payload) THEN DigitsToBits(payload, 16)[i + 1] ELSE 0

\* segment_rev = (raw_rev & (((1 << width) - 1) << offset)) >> offset,
\* then its width-bit binary text reversed and read in base 2: bit k of
\* segment_rev becomes the digit of weight 2^(width - 1 - k)
FormulaValue(payload, offset, width) ==
    BitsToNat([k \in 1..width |-> RawRevBit(payload, offset + k - 1)])

\* C1: for every resolved schema and every payload of hex digits, each
\* decoded field has the value the format's algorithm gives over unbounded
\* integers, the Hub fields at bit 32 and beyond included.
C1_DecodeMatchesFormula ==
    (Decoded /\ IsHex(hexValue)) =>
        \A f \in DOMAIN ResolvedFlags :
            flagValues[f] =
                FormulaValue(hexValue, ResolvedFlags[f][1], ResolvedFlags[f][2])

\* the hex length the format expects of a registered payload
ClaimLength(dt, v) ==
    IF dt = "cam" /\ v \in {2, 3} THEN 7
    ELSE IF dt = "cam" /\ v = 4 THEN 9
    ELSE IF dt = "cam" /\ v = 9 THEN 14
    ELSE IF dt = "hub" /\ v = 2 THEN 10
    ELSE 0

\* C2: for a schema with an expected length, a payload of that length
\* whose one bits are exactly the bits of one field F decodes to the
\* maximum of F at F and to zero at every other field.
C2_SingleFieldRoundTrip ==
    (Decoded /\ ClaimLength(devType, NumToNat(version)) > 0
             /\ Len(hexValue) = ClaimLength(devType, NumToNat(version))) =>
        \A f \in DOMAIN ResolvedFlags :
            hexValue = PatternPayload(Len(hexValue), Range(ResolvedFlags[f])) =>
                /\ flagValues[f] = Pow2(ResolvedFlags[f][2]) - 1
                /\ \A g \in DOMAIN ResolvedFlags \ {f} : flagValues[g] = 0

C4_BadTokenCountFails ==
    (Returned /\ GoodHeader(split[1]) /\ Len(split) \notin {6, 9}) =>
        /\ result = "null"
        /\ detectionClasses = <<>>
        /\ flagValues = NoFlags
        /\ hexValue = Undefined
        /\ version = ParseInt(<<split[1][6]>>, 10)
        /\ Len(console) = 1
        /\ console[1].msg = "unknown length"

C4_Witness ==
    /\ Returned
    /\ GoodHeader(split[1])
    /\ Len(split) = 7
    /\ result = "null"

\* the tokens of a name whose base name has an extension: the base name
\* is the text after the last '/', its stem the text before its last '.'
BaseOf(f) == Last(Split(f, "/"))
HasExtension(f) == \E i \in 1..Len(BaseOf(f)) : BaseOf(f)[i] = "."
StemTokens(f) ==
    LET dots == Split(BaseOf(f), ".")
    IN Split(Join(SubSeq(dots, 1, Len(dots) - 1), "."), "_")

\* C5: a name with an extension, a good header and 6 or 9 tokens always
\* returns a result with a non-empty class list: it is never null and
\* never throws, whatever its version character and payload.
C5_OnlyTokenizerFails ==
    (Returned /\ HasExtension(fileName) /\ GoodHeader(StemTokens(fileName)[1])
              /\ Len(StemTokens(fileName)) \in {6, 9}) =>
        /\ result = "ok"
        /\ Len(detectionClasses) >= 1

C5_Witness ==
    /\ Returned
    /\ result = "ok"
    /\ split[1][6] = "X"
    /\ hexValue = <<"6", "G">>
    /\ Len(detectionClasses) >= 1

\* C6: the token count alone decides: 6 tokens mean a camera with the
\* payload at index 4 and the file size at index 5, 9 tokens a hub with
\* the payload at index 7 and the file size at index 8; tokens 4, 5 and 6
\* of a 9-token name have no part in the result.
C6_LayoutByTokenCount ==
    (pc \in {"resolve", "length", "decode", "classify"} \/ (Returned /\ result = "ok")) =>
        /\ Len(split) \in {6, 9}
        /\ Len(split) = 6 =>
                devType = "cam" /\ hexValue = split[5] /\ fileSize = split[6]
        /\ Len(split) = 9 =>
                devType = "hub" /\ hexValue = split[8] /\ fileSize = split[9]
        /\ (Returned /\ Len(split) = 9) =>
                /\ flagValues = decodeHexToFlags(split[8], version, "hub")
                /\ detectionClasses = DetectionClasses(flagValues)

C6_Witness ==
    /\ Returned
    /\ result = "ok"
    /\ Len(split) = 9
    /\ split[5] = <<"F", "F", "F", "F", "F", "F", "F", "F", "F", "F">>
    /\ hexValue = <<"0", "3", "3", "C", "8", "2", "0", "0", "0", "0">>
    /\ devType = "hub"

\* the versions the registry has for a device type
Registered(dt) == IF dt = "cam" THEN {2, 3, 4, 9} ELSE {0, 1, 2}

\* the version digit of the header, as a number (a Number record)
HeaderVersion == ParseInt(<<split[1][6]>>, 10)

HeaderRegistered ==
    ~HeaderVersion.nan /\ NumToNat(HeaderVersion) \in Registered(devType)

\* C7: a registered (family, version) is used as it is, with no fallback
\* warning; any other version resolves to the highest registered version
\* of the family (9 for a camera, 2 for a hub) with exactly one fallback
\* warning, and the call still succeeds.
C7_SchemaResolution ==
    (Accepted /\ pc \in {"length", "decode", "classify", "done"}) =>
        /\ HeaderRegistered =>
                version = HeaderVersion /\ DebugCount("not yet known") = 0
        /\ ~HeaderRegistered =>
                /\ ~version.nan
                /\ NumToNat(version) = (IF devType = "cam" THEN 9 ELSE 2)
                /\ DebugCount("not yet known") = 1
        /\ Returned => result = "ok"

C7_Witness ==
    /\ Returned
    /\ result = "ok"
    /\ devType = "cam"
    /\ split[1][6] = "1"
    /\ NumToNat(version) = 9
    /\ DebugCount("not yet known") = 1

\* C8: a 6-token name with a good header, a registered camera version and
\* a payload of that version's expected length succeeds as a camera and
\* makes no console.debug call.
C8_CameraKnownVersionNoWarnings ==
    (Returned /\ GoodHeader(split[1]) /\ Len(split) = 6
              /\ split[1][6] \in {"2", "3", "4", "9"}
              /\ Len(split[5]) = ClaimLength("cam", NumToNat(HeaderVersion))) =>
        /\ result = "ok"
        /\ devType = "cam"
        /\ \A i \in 1..Len(console) : console[i].level # "debug"

C8_Witness ==
    /\ Returned
    /\ result = "ok"
    /\ devType = "cam"
    /\ split[1][6] = "9"
    /\ Len(hexValue) = 14
    /\ Len(console) = 1

\* C9: the length warning is made exactly when the payload's length
\* differs from the length expected for the resolved version (0 when the
\* registry expects none), after the fallback warning when both are made,
\* and it changes nothing: the call succeeds with the fields and classes
\* of the payload decoded with the resolved schema.
C9_LengthWarning ==
    (Accepted /\ pc \in {"decode", "classify", "done"}) =>
        /\ DebugCount("unexpected hex length") =
              (IF Len(hexValue) # ClaimLength(devType, NumToNat(version))
               THEN 1 ELSE 0)
        /\ \A i, j \in 1..Len(console) :
              (console[i].msg = "not yet known"
                 /\ console[j].msg = "unexpected hex length") => i < j
        /\ Returned =>
              /\ result = "ok"
              /\ flagValues = decodeHexToFlags(hexValue, version, devType)
              /\ detectionClasses = DetectionClasses(flagValues)

C9_Witness ==
    /\ Returned
    /\ result = "ok"
    /\ Len(console) = 3
    /\ console[1].msg = "not yet known"
    /\ console[2].msg = "unexpected hex length"
    /\ flagValues["is_motion_record"] = 1

Payload_6D28808 == <<"6", "D", "2", "8", "8", "0", "8">>

\* C10: the payload "6D28808" decoded with the camera version 2 schema
\* gives ai_pd, ai_fd, ai_vd and ai_ad the values of the bit-offset
\* formula, all 0, and is_motion_record 1; its classes are [motion].
C10_PinnedVector ==
    (Decoded /\ hexValue = Payload_6D28808 /\ devType = "cam"
             /\ NumToNat(version) = 2) =>
        /\ \A f \in {"ai_pd", "ai_fd", "ai_vd", "ai_ad"} :
              /\ flagValues[f] = 0
              /\ flagValues[f] =
                    FormulaValue(hexValue, FLAGS_CAM_V2[f][1], FLAGS_CAM_V2[f][2])
        /\ flagValues["is_motion_record"] = 1
        /\ Returned => detectionClasses = <<"motion">>

C10_Witness ==
    /\ Returned
    /\ hexValue = Payload_6D28808
    /\ devType = "cam"
    /\ NumToNat(version) = 2
    /\ detectionClasses = <<"motion">>

\* the value the claims give a field: a key the mapping lacks counts as 0
FieldOf(fv, key) == IF key \in DOMAIN fv THEN fv[key] ELSE 0

\* the class is in the list
InClasses(classes, c) == \E i \in 1..Len(classes) : classes[i] = c

\* the call decoded its payload
HasDecoded == DOMAIN flagValues # {}

\* C11: a call that decoded a payload returns a class list, without a
\* fault, in which person is present exactly when ai_pd is nonzero,
\* vehicle exactly when ai_vd is, animal exactly when ai_ad is, package
\* exactly when package_event is, and motion exactly when is_motion_record
\* is nonzero or none of ai_pd, ai_vd, ai_ad, package_event is; a field the
\* schema lacks counts as 0, and all five at 0 give exactly [motion]
C11_ClassMembership ==
    (Returned /\ HasDecoded) =>
        LET f(key) == FieldOf(flagValues, key)
            in(c)  == InClasses(detectionClasses, c)
        IN /\ result = "ok"
           /\ in("person") <=> f("ai_pd") # 0
           /\ in("vehicle") <=> f("ai_vd") # 0
           /\ in("animal") <=> f("ai_ad") # 0
           /\ in("package") <=> f("package_event") # 0
           /\ in("motion") <=>
                (\/ f("is_motion_record") # 0
                 \/ /\ f("ai_pd") = 0
                    /\ f("ai_vd") = 0
                    /\ f("ai_ad") = 0
                    /\ f("package_event") = 0)
           /\ (/\ f("ai_pd") = 0
               /\ f("ai_vd") = 0
               /\ f("ai_ad") = 0
               /\ f("package_event") = 0
               /\ f("is_motion_record") = 0) => detectionClasses = <<"motion">>

\* a camera call, whose schema has no package_event, with vehicle and
\* animal set and motion clear
C11_Witness ==
    /\ Returned
    /\ devType = "cam"
    /\ HasDecoded
    /\ "package_event" \notin DOMAIN flagValues
    /\ FieldOf(flagValues, "ai_vd") = 1
    /\ FieldOf(flagValues, "ai_ad") = 1
    /\ FieldOf(flagValues, "is_motion_record") = 0
    /\ detectionClasses = <<"vehicle", "animal">>

\* the fixed order of the classes
ClassOrder == <<"person", "vehicle", "animal", "motion", "package">>

\* where a class stands in the fixed order, 0 for a class it does not have
Rank(c) ==
    IF \E k \in 1..Len(ClassOrder) : ClassOrder[k] = c
    THEN CHOOSE k \in 1..Len(ClassOrder) : ClassOrder[k] = c
    ELSE 0

\* C12: the class list of a call that decoded a payload is non-empty, has
\* only the five classes, each at most once and in the order person,
\* vehicle, animal, motion, package; ai_pd = 1 and ai_vd = 1 with the
\* other class fields at 0 give exactly [person, vehicle]
C12_ClassOrder ==
    (Returned /\ HasDecoded) =>
        /\ Len(detectionClasses) >= 1
        /\ \A i \in 1..Len(detectionClasses) : Rank(detectionClasses[i]) > 0
        /\ \A i, j \in 1..Len(detectionClasses) :
              i < j => Rank(detectionClasses[i]) < Rank(detectionClasses[j])
        /\ (/\ FieldOf(flagValues, "ai_pd") = 1
            /\ FieldOf(flagValues, "ai_vd") = 1
            /\ FieldOf(flagValues, "ai_ad") = 0
            /\ FieldOf(flagValues, "is_motion_record") = 0
            /\ FieldOf(flagValues, "package_event") = 0)
           => detectionClasses = <<"person", "vehicle">>

\* a call whose payload has ai_pd and ai_vd set and no other class field
C12_Witness ==
    /\ Returned
    /\ HasDecoded
    /\ FieldOf(flagValues, "ai_pd") = 1
    /\ FieldOf(flagValues, "ai_vd") = 1
    /\ FieldOf(flagValues, "ai_ad") = 0
    /\ FieldOf(flagValues, "is_motion_record") = 0
    /\ FieldOf(flagValues, "package_event") = 0
    /\ detectionClasses = <<"person", "vehicle">>

\* C13: the decoded mapping has exactly the field names of the resolved
\* schema as its keys, and every value is a number v with 0 <= v < 2^w
\* for its field's width w, whatever the payload (the bits at offsets
\* 28-39 of a hub payload included)
C13_KeysAndRanges ==
    pc = "classify" =>
        /\ DOMAIN flagValues = DOMAIN ResolvedFlags
        /\ \A f \in DOMAIN ResolvedFlags :
              LET n == FlagNumber(HexIntRev(hexValue), ResolvedFlags[f][1],
                                  ResolvedFlags[f][2])
              IN /\ ~n.nan
                 /\ ~n.neg
                 /\ 0 <= flagValues[f]
                 /\ flagValues[f] < Pow2(ResolvedFlags[f][2])

\* a hub payload of ten characters with every bit set, offsets 28-39
\* included, has been decoded
C13_Witness ==
    /\ Decoded
    /\ devType = "hub"
    /\ NumToNat(version) = 2
    /\ hexValue = PatternPayload(10, 0..39)
    /\ flagValues["picture_layout_index"] = 1
    /\ flagValues["upload_flag"] = 1

\* C14: a payload shorter than its schema expects is still decoded, and a
\* field whose bits all lie past the payload's bit length (four bits per
\* character) decodes to 0, for camera and hub names alike
C14_FieldsPastPayloadAreZero ==
    /\ (Returned /\ Accepted) => result = "ok"
    /\ pc = "classify" =>
          \A f \in DOMAIN ResolvedFlags :
              ResolvedFlags[f][1] >= 4 * Len(hexValue) => flagValues[f] = 0

\* the calls that have returned, in the order they were made
Calls == history \o (IF Returned THEN <<CallRecord>> ELSE <<>>)

\* the five fields the classes are read from
ClassFields ==
    {"ai_pd", "ai_vd", "ai_ad", "is_motion_record", "package_event"}

\* the two calls decoded under the same schema and agree on the five fields
SameClassFields(a, b) ==
    /\ DOMAIN a.flagValues # {}
    /\ DOMAIN b.flagValues # {}
    /\ a.devType = b.devType
    /\ a.version = b.version
    /\ \A k \in ClassFields :
          FieldOf(a.flagValues, k) = FieldOf(b.flagValues, k)

\* C15: two calls that decode their payloads under the same schema and
\* agree on ai_pd, ai_vd, ai_ad, is_motion_record and package_event return
\* the same class list, whatever their other fields are
C15_ClassFieldsOnly ==
    \A i, j \in 1..Len(Calls) :
        SameClassFields(Calls[i], Calls[j])
            => Calls[i].detectionClasses = Calls[j].detectionClasses

\* two returned calls under camera version 2 that agree on the five
\* fields and differ in ai_fd
C15_Witness ==
    /\ Returned
    /\ Len(history) >= 1
    /\ SameClassFields(history[1], CallRecord)
    /\ history[1].flagValues["ai_fd"] = 1
    /\ flagValues["ai_fd"] = 0
    /\ detectionClasses = history[1].detectionClasses

\* f is b behind a directory prefix that ends in '/'
IsPrefixed(f, b) ==
    \E k \in 1..Len(f) : f[k] = "/" /\ SubSeq(f, k + 1, Len(f)) = b

\* C16: a call on d + b, for a directory prefix d that ends in '/', returns
\* what a call on b returns, also when d has a '.' in it and b has no
\* extension
C16_DirectoryIndependent ==
    \A i, j \in 1..Len(Calls) :
        IsPrefixed(Calls[i].fileName, Calls[j].fileName)
            => /\ Calls[i].result = Calls[j].result
               /\ Calls[i].detectionClasses = Calls[j].detectionClasses

\* the console.debug calls of a returned call
Warnings(c) == SelectSeq(c.console, LAMBDA e : e.level = "debug")

\* C17: whatever calls were made before it (successful, failing, falling
\* back), a call on a name returns the same result and makes the same
\* warnings as the first call on that name; a name called twice gives the
\* same outcome twice
C17_Idempotent ==
    \A i, j \in 1..Len(Calls) :
        Calls[i].fileName = Calls[j].fileName
            => /\ Calls[i].result = Calls[j].result
               /\ Calls[i].detectionClasses = Calls[j].detectionClasses
               /\ Warnings(Calls[i]) = Warnings(Calls[j])

\* a name of an unregistered version is called first, a failing call
\* follows, and the name is called again
C17_Witness ==
    /\ Returned
    /\ Len(history) = 2
    /\ history[1].fileName = fileName
    /\ history[2].result = "null"
    /\ result = "ok"
    /\ DebugCount("not yet known") = 1
    /\ console = history[1].console

\* C18: no step of a call changes the registry: FLAGS_MAPPING and
\* FLAGS_LENGTH are the same after a call as before it, the fallback, which
\* rebinds the call's own version only, included
C18_RegistryNeverMutated == [][registry' = registry]_vars

\* a later call of a series has fallen back and warned of the length, and
\* the registry is what it was when the module was loaded
C18_Witness ==
    /\ Returned
    /\ Len(history) >= 1
    /\ DebugCount("not yet known") = 1
    /\ DebugCount("unexpected hex length") = 1
    /\ registry = Registry

\* C19: of two calls running at once, in every interleaving of their
\* steps, each returns what the same call returns when it runs alone
C19_NoInterference ==
    /\ Returned => <<result, detectionClasses>> = parseFileName(fileName)
    /\ other.pc = "done" =>
          <<other.result, other.detectionClasses>> = parseFileName(other.fileName)

\* both calls have returned an object, for different payloads, and the
\* console shows their steps interleaved: one call's fallback warning, the
\* other call's decode, the first call's length warning
C19_Witness ==
    /\ Returned
    /\ other.pc = "done"
    /\ result = "ok"
    /\ other.result = "ok"
    /\ hexValue # other.hexValue
    /\ Len(console) >= 3
    /\ console[1].msg = "not yet known"
    /\ console[2].msg = "flags"
    /\ console[3].msg = "unexpected hex length"

\* no two fields of the schema have a bit in common
Disjoint(flags) ==
    \A f, g \in DOMAIN flags :
        f # g =>
            \/ flags[f][1] + flags[f][2] <= flags[g][1]
            \/ flags[g][1] + flags[g][2] <= flags[f][1]

\* C20: the registry has the camera schemas 2, 3, 4, 9 and the hub schemas
\* 0, 1, 2, and within each of them no two fields' bit ranges overlap
C20_SchemasDisjoint ==
    /\ DOMAIN registry.FLAGS_MAPPING = {"cam", "hub"}
    /\ DOMAIN registry.FLAGS_MAPPING["cam"] = {2, 3, 4, 9}
    /\ DOMAIN registry.FLAGS_MAPPING["hub"] = {0, 1, 2}
    /\ \A dt \in DOMAIN registry.FLAGS_MAPPING :
          \A v \in DOMAIN registry.FLAGS_MAPPING[dt] :
              Disjoint(registry.FLAGS_MAPPING[dt][v])

\* a hub version 2 payload has been decoded whose neighbouring fields
\* resolution_index (bits 0-6), tv_system (bit 7) and framerate (bits
\* 8-14) are all set
C20_Witness ==
    /\ Decoded
    /\ devType = "hub"
    /\ NumToNat(version) = 2
    /\ flagValues["resolution_index"] = 1
    /\ flagValues["tv_system"] = 1
    /\ flagValues["framerate"] = 30

\* C21: every (family, version) that has a schema has an expected hex
\* length: a call that reaches the length check, whose version is then a
\* registered one, finds a FLAGS_LENGTH entry for it, for hub versions 0
\* and 1 as for hub 2 and camera 2, 3, 4, 9, so that a payload of the
\* right length is not warned about
C21_RegisteredVersionHasLength ==
    pc = "length" =>
        /\ ~version.nan
        /\ NumToNat(version) \in DOMAIN registry.FLAGS_MAPPING[devType]
        /\ NumToNat(version) \in DOMAIN registry.FLAGS_LENGTH[devType]

\* C22: a hub name resolved to schema 1 or 2 has package in its class
\* list exactly when bit 37 of its payload, counted from the most
\* significant bit of the payload padded to four bits per character, is 1;
\* the bits of resolution_index (0-6) neither cause nor suppress it
C22_PackageIsBit37 ==
    (/\ Returned
     /\ result = "ok"
     /\ devType = "hub"
     /\ NumToNat(version) \in {1, 2}
     /\ IsHex(hexValue)) =>
        (InClasses(detectionClasses, "package")
            <=> RawRevBit(hexValue, 37) = 1)

\* the text of the name up to its base name
DirOf(f) == SubSeq(f, 1, Len(f) - Len(BaseOf(f)))

\* the name with other characters 4-5 in its header and, for a name of 6
\* or 9 tokens, another start date (with a DST marker), start time, end
\* time and file size; the directory, the extension, the token count, the
\* rest of the header and the other tokens are kept
Variant(f) ==
    LET t    == StemTokens(f)
        n    == Len(t)
        head == <<>> \o [i \in 1..Len(t[1]) |->
                            IF i = 4 THEN "S" ELSE IF i = 5 THEN "7"
                            ELSE t[1][i]]
        u    == <<>> \o [i \in 1..n |->
                    IF i = 1 THEN head
                    ELSE IF n \notin {6, 9} THEN t[i]
                    ELSE IF i = 2
                         THEN <<"D", "S", "T", "2", "0", "2", "4", "0", "8", "2", "7">>
                    ELSE IF i = 3 THEN <<"0", "9", "0", "3", "0", "2">>
                    ELSE IF i = 4 THEN <<"0", "9", "0", "3", "3", "4">>
                    ELSE IF i = n THEN <<"6", "1", "B", "6", "F", "0">>
                    ELSE t[i]]
    IN DirOf(f) \o Join(u, "_") \o <<".">> \o Last(Split(BaseOf(f), "."))

\* C23: a name and the name that differs from it only in characters 4-5
\* of the header, the start date (with or without "DST"), the start time,
\* the end time and the file size have the same outcome, failure or
\* object, and the same class list
C23_OnlyCountHeaderPayload ==
    (Returned /\ HasExtension(fileName)) =>
        <<result, detectionClasses>> = parseFileName(Variant(fileName))

\* a call on a camera name of another stream, another date without the
\* marker, other times and another size than its variant has returned an
\* object
C23_Witness ==
    /\ Returned
    /\ result = "ok"
    /\ HasExtension(fileName)
    /\ split[1] = <<"R", "e", "c", "M", "0", "1">>
    /\ startDate = <<"2", "0", "2", "0", "1", "2", "2", "2">>
    /\ fileSize = <<"1", "A", "4", "6", "8", "F", "9">>
    /\ Variant(fileName) # fileName

\* C24: for a payload of at most 13 hex characters and a field that lies
\* within the first 31 bits, the decoded value is the number whose
\* big-endian binary text is the characters offset .. offset + width - 1
\* of the payload's binary text (four bits per character), with zeros for
\* the characters past its end
C24_MsbFirstSubstring ==
    (pc = "classify" /\ IsHex(hexValue) /\ Len(hexValue) <= 13) =>
        \A f \in DOMAIN ResolvedFlags :
            ResolvedFlags[f][1] + ResolvedFlags[f][2] <= 31 =>
                flagValues[f] =
                    BitsToNat([k \in 1..ResolvedFlags[f][2] |->
                        RawRevBit(hexValue, ResolvedFlags[f][1] + k - 1)])

\* "6D28808" is 0110110 1 0010100 01 ... in binary: resolution_index 54,
\* tv_system 1, framerate 20, audio_index 1
C24_Witness ==
    /\ pc = "classify"
    /\ hexValue = Payload_6D28808
    /\ devType = "cam"
    /\ flagValues["resolution_index"] = 54
    /\ flagValues["tv_system"] = 1
    /\ flagValues["framerate"] = 20
    /\ flagValues["audio_index"] = 1

\* the name with c as the sixth character of its six-character header
WithVersionChar(f, c) ==
    LET t == StemTokens(f)
        u == <<>> \o [i \in 1..Len(t) |->
                        IF i = 1 THEN SubSeq(t[1], 1, 5) \o <<c>> ELSE t[i]]
    IN DirOf(f) \o Join(u, "_") \o <<".">> \o Last(Split(BaseOf(f), "."))

\* a name of six tokens with an extension and a six-character header
CameraName(f) ==
    /\ HasExtension(f)
    /\ Len(StemTokens(f)) = 6
    /\ Len(StemTokens(f)[1]) = 6

\* C25: a camera name (six tokens) has the outcome and the class list of
\* the name that differs from it only in having "2" as its header's
\* version character, so two camera names that differ only in that
\* character, registered, unregistered or no digit, have the same class
\* list
C25_CameraVersionIrrelevant ==
    (Returned /\ CameraName(fileName)) =>
        <<result, detectionClasses>> =
            parseFileName(WithVersionChar(fileName, "2"))

\* a camera name whose version character is no digit has returned person
\* and vehicle, after a fallback warning
C25_Witness ==
    /\ Returned
    /\ CameraName(fileName)
    /\ StemTokens(fileName)[1][6] = "X"
    /\ DebugCount("not yet known") = 1
    /\ detectionClasses = <<"person", "vehicle">>

\* C26: package is in the class list of a returned call only for a hub
\* name whose resolved version is 1 or 2: never for a camera name and
\* never for a hub name of version 0, whatever the payload
C26_PackageOnlyHub12 ==
    (Returned /\ InClasses(detectionClasses, "package")) =>
        /\ devType = "hub"
        /\ ~version.nan
        /\ NumToNat(version) \in {1, 2}

\* a hub name of version 0 with package_delivered and package_takenaway
\* set has returned a class list without package
C26_Witness ==
    /\ Returned
    /\ result = "ok"
    /\ devType = "hub"
    /\ NumToNat(version) = 0
    /\ FieldOf(flagValues, "package_delivered") = 1
    /\ FieldOf(flagValues, "package_takenaway") = 1
    /\ ~InClasses(detectionClasses, "package")

\* the header is "Rec" and three more characters, the last one no digit
NonDigitHeader ==
    GoodHeader(split[1]) /\ DigitVal(split[1][6], 10) < 0

\* C27: a six-character "Rec" header whose sixth character is no decimal
\* digit is not rejected: its version is not-a-number, which no registry
\* has, so a name of 6 or 9 tokens is decoded with the highest registered
\* version of its family after one fallback warning; decodeHexToFlags is
\* always called with a registered (family, version) and never looks up
\* an undefined schema
C27_NonDigitVersionFallsBack ==
    /\ (pc = "select" /\ NonDigitHeader) => version.nan
    /\ (Accepted /\ Returned /\ NonDigitHeader) =>
          /\ result = "ok"
          /\ DebugCount("not yet known") = 1
          /\ NumToNat(version) = (IF devType = "cam" THEN 9 ELSE 2)
    /\ pc = "decode" =>
          /\ ~version.nan
          /\ ~version.neg
          /\ NumToNat(version) \in DOMAIN registry.FLAGS_MAPPING[devType]
    /\ result # "TypeError"

\* a hub name with version character X has been decoded as hub version 2
\* after one fallback warning
C27_Witness ==
    /\ Returned
    /\ Accepted
    /\ split[1][6] = "X"
    /\ devType = "hub"
    /\ result = "ok"
    /\ NumToNat(version) = 2
    /\ DebugCount("not yet known") = 1

\* the name has no '.' in it
NoDot(f) == \A i \in 1..Len(f) : f[i] # "."

\* C28: a call on a name without any '.' returns null, also when the name
\* is a well-formed recording name of 6 or 9 tokens with a "Rec" header:
\* the stem, the text before the last '.', is empty
C28_NoDotFails ==
    (pc # "tokenize" /\ NoDot(fileName)) =>
        /\ name = <<>>
        /\ Returned => (result = "null" /\ detectionClasses = <<>>)

\* the camera name RecM02_0_0_0_6D28808_0, given without an extension, has
\* returned null
C28_Witness ==
    /\ Returned
    /\ fileName = BaseName(<<"R", "e", "c", "M", "0", "2">>, 6,
                           Payload_6D28808, <<"0">>)
    /\ result = "null"
    /\ DebugCount("could not find version") = 1

\* C29: videoclipsToFetch never holds a clip path twice, whatever the
\* interleaving of getVideoClips calls, passes of the clip timer and ticks
\* that fire while a pass awaits a fetch
C29_NoPathTwice ==
    \A i, j \in 1..Len(videoclipsToFetch) :
        i # j => videoclipsToFetch[i] # videoclipsToFetch[j]

\* C30: with no path enqueued during it, every pass of the clip timer
\* ends, the queue empty: pushing back a path whose fetch threw does not
\* keep the pass running forever
C30_PassTerminates ==
    \A d \in DrainIds :
        (drain[d].pc # "idle")
            ~> (drain[d].pc = "idle" /\ videoclipsToFetch = <<>>)

===========================================================================
